---------------------------- MODULE Spec2Model ----------------------------
(***************************************************************************)
(* Model of the mesh-geometry core of ReBuild Intelligence                 *)
(* (src/backend/algorithm/geometry_pipeline.py).                           *)
(*                                                                         *)
(* Real numbers are exact rationals <<n, d>> (d > 0, lowest terms); a      *)
(* point is a triple of rationals.  Vertex indices are 0-based as in the   *)
(* source; a TLA+ sequence holds index i at position i + 1.                *)
(***************************************************************************)
EXTENDS Integers, Sequences, FiniteSets, TLC

VARIABLES
    mode,          \* which entry point this behaviour exercises
    pc,            \* position of the call in progress
    pieces,        \* build_piece_meshes / pieces_to_obj: the PiecePlan list
    scan_paths,    \* build_piece_meshes: the scan path list
    idx,           \* build_piece_meshes / pieces_to_obj: loop index (enumerate)
    geometries,    \* build_piece_meshes: the result list
    mesh,          \* _keep_halfspace / remesh_watertight: the input mesh
    plane_origin,  \* _keep_halfspace: plane origin
    plane_normal,  \* _keep_halfspace: plane normal
    tol,           \* _keep_halfspace: tolerance
    sliced,        \* outcome of the first _keep_halfspace call
    resliced,      \* outcome of _keep_halfspace applied to the first result
    repaired,      \* outcome of remesh_watertight
    heap,          \* the mesh objects allocated so far; an object is its position
    stage_calls,   \* the stage calls completed so far, with their arguments
    lines,         \* pieces_to_obj: the output lines
    vertex_offset  \* pieces_to_obj: vertices emitted before the current piece

vars == <<mode, pc, pieces, scan_paths, idx, geometries, mesh, plane_origin,
          plane_normal, tol, sliced, resliced, repaired, heap, stage_calls,
          lines, vertex_offset>>

None == "None"

(***************************************************************************)
(* Exact arithmetic                                                        *)
(***************************************************************************)
Abs(x) == IF x < 0 THEN -x ELSE x

RECURSIVE Gcd(_, _)
Gcd(a, b) == IF b = 0 THEN a ELSE Gcd(b, a % b)

Rat(n, d) ==
    LET g == Gcd(Abs(n), Abs(d))
        s == IF d < 0 THEN -1 ELSE 1
    IN  <<(s * n) \div g, (s * d) \div g>>

RInt(n) == <<n, 1>>
RNeg(a) == <<-a[1], a[2]>>
RAdd(a, b) == Rat(a[1] * b[2] + b[1] * a[2], a[2] * b[2])
RSub(a, b) == Rat(a[1] * b[2] - b[1] * a[2], a[2] * b[2])
RMul(a, b) == Rat(a[1] * b[1], a[2] * b[2])
RDiv(a, b) == Rat(a[1] * b[2], a[2] * b[1])
RLt(a, b) == a[1] * b[2] < b[1] * a[2]
RGeq(a, b) == ~RLt(a, b)

VInt(x, y, z) == <<RInt(x), RInt(y), RInt(z)>>
VAdd(p, q) == <<RAdd(p[1], q[1]), RAdd(p[2], q[2]), RAdd(p[3], q[3])>>
VSub(p, q) == <<RSub(p[1], q[1]), RSub(p[2], q[2]), RSub(p[3], q[3])>>
VScale(p, t) == <<RMul(p[1], t), RMul(p[2], t), RMul(p[3], t)>>
VDot(p, q) == RAdd(RAdd(RMul(p[1], q[1]), RMul(p[2], q[2])), RMul(p[3], q[3]))

Range(s) == {s[i] : i \in 1..Len(s)}

SeqMin(a, b) == IF a < b THEN a ELSE b
SeqMax(a, b) == IF a < b THEN b ELSE a

(***************************************************************************)
(* Half-space clipper: _keep_halfspace and _clip_face                      *)
(***************************************************************************)
\* distances = (vertices - plane_origin).dot(plane_normal)
Distances(vertices, origin, normal) ==
    [i \in 1..Len(vertices) |-> VDot(VSub(vertices[i], origin), normal)]

\* face_dist = distances[face]
FaceDist(distances, face) == [k \in 1..Len(face) |-> distances[face[k] + 1]]

\* the test "d >= -tol" of one vertex distance
Retained(d, t) == RGeq(d, RNeg(t))

AllRetainedStrict(face_dist, t) ==
    \A k \in 1..Len(face_dist) : RLt(RNeg(t), face_dist[k])

\* np.all(face_dist >= -tol)
AllRetained(face_dist, t) == \A k \in 1..Len(face_dist) : RGeq(face_dist[k], RNeg(t))

\* np.all(face_dist < tol * -1)
AllDiscarded(face_dist, t) == \A k \in 1..Len(face_dist) : RLt(face_dist[k], RNeg(t))

\* edge_key = tuple(sorted((current_index, next_index)))
EdgeKeyUnsorted(current_index, next_index) == <<current_index, next_index>>

EdgeKey(current_index, next_index) ==
    <<SeqMin(current_index, next_index), SeqMax(current_index, next_index)>>

\* t = 0.0 if denom == 0 else current_dist / denom
InterpOnNext(current_dist, next_dist) == RInt(1)

\* the same quotient held within 0..1
InterpParamClamped(current_dist, next_dist) ==
    LET denom == RSub(current_dist, next_dist)
        q == IF denom[1] = 0 THEN RInt(0) ELSE RDiv(current_dist, denom)
    IN  IF RLt(q, RInt(0)) THEN RInt(0) ELSE IF RLt(RInt(1), q) THEN RInt(1) ELSE q

InterpParam(current_dist, next_dist) ==
    LET denom == RSub(current_dist, next_dist)
    IN  IF denom[1] = 0 THEN RInt(0) ELSE RDiv(current_dist, denom)

\* point = vertices[current_index] + direction * t
InterpPoint(vertices, current_index, next_index, current_dist, next_dist) ==
    LET direction == VSub(vertices[next_index + 1], vertices[current_index + 1])
        t == InterpParam(current_dist, next_dist)
    IN  VAdd(vertices[current_index + 1], VScale(direction, t))

\* only the edges that leave the retained side
IntersectsLeavingOnly(current_dist, next_dist, t) ==
    Retained(current_dist, t) /\ ~Retained(next_dist, t)

\* intersects = (cur >= -tol and next < -tol) or (cur < -tol and next >= -tol)
Intersects(current_dist, next_dist, t) ==
    \/ Retained(current_dist, t) /\ ~Retained(next_dist, t)
    \/ ~Retained(current_dist, t) /\ Retained(next_dist, t)

\* One iteration of the edge loop of _clip_face, on the loop state
\* st = [clipped, cache, new_vertices].
ClipEdge(i, face, face_dist, vertices, st, t) ==
    LET n == Len(face)
        current_index == face[i + 1]
        next_index == face[((i + 1) % n) + 1]
        current_dist == face_dist[i + 1]
        next_dist == face_dist[((i + 1) % n) + 1]
        clipped1 == IF Retained(current_dist, t)
                    THEN Append(st.clipped, current_index)
                    ELSE st.clipped
        edge_key == EdgeKey(current_index, next_index)
    IN  IF ~Intersects(current_dist, next_dist, t)
        THEN [st EXCEPT !.clipped = clipped1]
        ELSE IF edge_key \in DOMAIN st.cache
        THEN [st EXCEPT !.clipped = Append(clipped1, st.cache[edge_key])]
        ELSE LET point == InterpPoint(vertices, current_index, next_index,
                                      current_dist, next_dist)
                 nv == Append(st.new_vertices, point)
                 new_index == Len(nv) - 1
             IN  [clipped |-> Append(clipped1, new_index),
                  cache |-> (edge_key :> new_index) @@ st.cache,
                  new_vertices |-> nv]

RECURSIVE ClipEdges(_, _, _, _, _, _)
ClipEdges(i, face, face_dist, vertices, st, t) ==
    IF i = Len(face) THEN st
    ELSE ClipEdges(i + 1, face, face_dist, vertices,
                   ClipEdge(i, face, face_dist, vertices, st, t), t)

\* _clip_face: returns the clipped polygon and the updated cache and vertex list
_clip_face(face, face_dist, vertices, edge_vertex_cache, new_vertices, t) ==
    ClipEdges(0, face, face_dist, vertices,
              [clipped |-> <<>>, cache |-> edge_vertex_cache,
               new_vertices |-> new_vertices], t)

FanFirstOnly(clipped) ==
    IF Len(clipped) >= 3 THEN << <<clipped[1], clipped[2], clipped[3]>> >> ELSE <<>>

\* fixed-anchor fan: [anchor, clipped[i], clipped[i + 1]] for i in 1..len-2
Fan(clipped) ==
    IF Len(clipped) >= 3
    THEN [i \in 1..(Len(clipped) - 2) |-> <<clipped[1], clipped[i + 1], clipped[i + 2]>>]
    ELSE <<>>

\* One iteration of the face loop of _keep_halfspace, on the loop state
\* ks = [new_vertices, new_faces, cache, clips], where clips records, per face
\* handed to _clip_face, the face and the polygon it returned.
KeepFace(face, distances, vertices, ks, t) ==
    LET face_dist == FaceDist(distances, face)
    IN  IF AllRetained(face_dist, t)
        THEN [ks EXCEPT !.new_faces = Append(@, face)]
        ELSE IF AllDiscarded(face_dist, t)
        THEN ks
        ELSE LET r == _clip_face(face, face_dist, vertices, ks.cache,
                                 ks.new_vertices, t)
             IN  [new_vertices |-> r.new_vertices,
                  new_faces |-> ks.new_faces \o Fan(r.clipped),
                  cache |-> r.cache,
                  clips |-> Append(ks.clips, [face |-> face, clipped |-> r.clipped])]

RECURSIVE KeepFaces(_, _, _, _, _, _)
KeepFaces(k, faces, distances, vertices, ks, t) ==
    IF k > Len(faces) THEN ks
    ELSE KeepFaces(k + 1, faces, distances, vertices,
                   KeepFace(faces[k], distances, vertices, ks, t), t)

\* lines 169-194: the face loop, from its initial state
KeepLoop(m, origin, normal, t) ==
    KeepFaces(1, m.faces, Distances(m.vertices, origin, normal), m.vertices,
              [new_vertices |-> m.vertices, new_faces |-> <<>>,
               cache |-> <<>>, clips |-> <<>>], t)


(***************************************************************************)
(* Mesh bookkeeping done by the mesh container on behalf of the pipeline   *)
(***************************************************************************)
Mesh(vs, fs) == [vertices |-> vs, faces |-> fs]

\* the vertex indices some face references
Referenced(m) == {m.faces[k][c] : k \in 1..Len(m.faces), c \in 1..3}

\* Keep the vertices rep maps the referenced ones to, in index order, and
\* renumber the faces accordingly.
Reindex(m, rep) ==
    LET used == {rep[i] : i \in Referenced(m)}
        pos(i) == Cardinality({u \in used : u < i})
        nth(j) == CHOOSE i \in used : pos(i) = j - 1
    IN  Mesh([j \in 1..Cardinality(used) |-> m.vertices[nth(j) + 1]],
             [k \in 1..Len(m.faces) |-> [c \in 1..3 |-> pos(rep[m.faces[k][c]])]])

\* mesh.remove_unreferenced_vertices()
remove_unreferenced_vertices(m) ==
    Reindex(m, [i \in 0..(Len(m.vertices) - 1) |-> i])

\* trimesh.Trimesh(vertices=..., faces=..., process=True): referenced vertices
\* at the same position are merged into the first of them.
Process(m) ==
    Reindex(m, [i \in 0..(Len(m.vertices) - 1) |->
                   IF i \in Referenced(m)
                   THEN CHOOSE j \in Referenced(m) :
                          /\ m.vertices[j + 1] = m.vertices[i + 1]
                          /\ \A h \in Referenced(m) :
                                m.vertices[h + 1] = m.vertices[i + 1] => j <= h
                   ELSE i])

\* the three undirected edges of face k, as (face, side) occurrences
EdgeOccurrences(m) ==
    {<<k, c>> : k \in 1..Len(m.faces), c \in 1..3}

SortedEdge(m, occ) ==
    EdgeKey(m.faces[occ[1]][occ[2]], m.faces[occ[1]][(occ[2] % 3) + 1])

EdgeCount(m, e) == Cardinality({occ \in EdgeOccurrences(m) : SortedEdge(m, occ) = e})

SortedEdges(m) == {SortedEdge(m, occ) : occ \in EdgeOccurrences(m)}

\* mesh.is_empty
is_empty(m) == Len(m.vertices) = 0

\* mesh.is_watertight: every edge is included in exactly two faces
is_watertight(m) ==
    /\ ~is_empty(m)
    /\ \A e \in SortedEdges(m) : EdgeCount(m, e) = 2

RECURSIVE SetToSeq(_)
SetToSeq(S) ==
    IF S = {} THEN <<>>
    ELSE LET x == CHOOSE y \in S : TRUE IN <<x>> \o SetToSeq(S \ {x})

\* mesh.fill_holes(): closes the boundary loops of 3 edges with one triangle
\* and those of 4 edges with two; longer loops are left open.
fill_holes(m) ==
    LET BE == {e \in SortedEdges(m) : EdgeCount(m, e) = 1}
        Nbr(a) == {b \in Referenced(m) : EdgeKey(a, b) \in BE /\ a # b}
        BV == {a \in Referenced(m) : Nbr(a) # {}}
        tri == UNION {UNION {{<<a, b, c>> : c \in {x \in Nbr(b) : x > b /\ x \in Nbr(a)}}
                             : b \in {x \in Nbr(a) : x > a}} : a \in BV}
        quad == UNION {UNION {UNION {{<<a, b, c, d>> :
                                        d \in {x \in Nbr(c) : x > b /\ x \in Nbr(a) /\ x # a}}
                                     : c \in {x \in Nbr(b) : x > a}}
                              : b \in {x \in Nbr(a) : x > a}} : a \in BV}
        quadFaces == UNION {{<<q[1], q[2], q[3]>>, <<q[3], q[4], q[1]>>} : q \in quad}
    IN  IF Len(m.faces) < 3 \/ is_watertight(m) \/ Cardinality(BE) < 3
        THEN m
        ELSE Mesh(m.vertices, m.faces \o SetToSeq(tri) \o SetToSeq(quadFaces))

(***************************************************************************)
(* _keep_halfspace as a whole                                              *)
(***************************************************************************)
\* lines 196-203: what is returned for the loop's final state ks
EmptyInsteadOfOriginal(m, ks) ==
    IF ks.new_faces = <<>>
    THEN Mesh(<<>>, <<>>)
    ELSE fill_holes(remove_unreferenced_vertices(
             Process(Mesh(ks.new_vertices, ks.new_faces))))

KeepResult(m, ks) ==
    IF ks.new_faces = <<>>
    THEN m
    ELSE fill_holes(remove_unreferenced_vertices(
             Process(Mesh(ks.new_vertices, ks.new_faces))))

\* outcome of one call: the loop's final state, whether the full-removal
\* fallback was taken, and the mesh returned
_keep_halfspace(m, origin, normal, t) ==
    LET ks == KeepLoop(m, origin, normal, t)
    IN  [distances |-> Distances(m.vertices, origin, normal),
         new_vertices |-> ks.new_vertices,
         new_faces |-> ks.new_faces,
         cache |-> ks.cache,
         clips |-> ks.clips,
         fallback |-> (ks.new_faces = <<>>),
         mesh |-> KeepResult(m, ks)]

(***************************************************************************)
(* Inputs of the clipper runs: the 12-triangle box of trimesh.creation.box *)
(* (side 2 * HalfSide) and its sub-meshes made of up to MaxFaces           *)
(* consecutive faces of FacePool, which lists the box's triangles and two  *)
(* inner triangles that put a third face on a box edge.  Lengths are in a  *)
(* unit in which the tolerances 1..MaxTol are whole numbers.               *)
(***************************************************************************)
HalfSide == 2
MaxFaces == 4
MaxTol == 2
OriginRange == 4

\* corner i has the bits of i as (x, y, z), 0 for -HalfSide and 1 for +HalfSide
Corner(i) ==
    VInt(IF i \div 4 = 1 THEN HalfSide ELSE -HalfSide,
         IF (i \div 2) % 2 = 1 THEN HalfSide ELSE -HalfSide,
         IF i % 2 = 1 THEN HalfSide ELSE -HalfSide)

BoxVertices == [i \in 1..8 |-> Corner(i - 1)]

BoxFaces ==
    << <<1, 3, 0>>, <<4, 1, 0>>, <<0, 3, 2>>, <<2, 4, 0>>,
       <<1, 7, 3>>, <<5, 1, 4>>, <<5, 7, 1>>, <<3, 7, 2>>,
       <<6, 4, 2>>, <<2, 7, 6>>, <<6, 5, 4>>, <<7, 5, 6>> >>

Box == Mesh(BoxVertices, BoxFaces)

FacePool ==
    << <<1, 3, 0>>, <<4, 1, 0>>, <<0, 3, 2>>, <<2, 4, 0>>,
       <<1, 7, 3>>, <<0, 3, 7>>, <<3, 7, 2>>, <<5, 1, 4>>,
       <<5, 7, 1>>, <<6, 4, 2>>, <<2, 7, 6>>, <<0, 7, 6>>,
       <<7, 5, 6>>, <<6, 5, 4>> >>

\* n consecutive faces of FacePool from position s on, wrapping round
PoolFaces(s, n) == [j \in 1..n |-> FacePool[((s + j - 2) % Len(FacePool)) + 1]]

ClipMeshes ==
    {Mesh(BoxVertices, PoolFaces(s, n)) : s \in 1..Len(FacePool), n \in 0..MaxFaces}
    \cup {Box}

ClipOrigins == {VInt(k, k, k) : k \in (-OriginRange)..OriginRange}

ClipNormals == {VInt(1, 0, 0), VInt(-1, 0, 0), VInt(0, 0, 1), VInt(1, 0, 1)}

ClipTols == {RInt(k) : k \in 1..MaxTol}

InitClip ==
    /\ mode = "clip"
    /\ pc = "start"
    /\ mesh \in ClipMeshes
    /\ plane_origin \in ClipOrigins
    /\ plane_normal \in ClipNormals
    /\ tol \in ClipTols
    /\ sliced = None
    /\ resliced = None
    /\ pieces = None /\ scan_paths = None /\ idx = None /\ geometries = None
    /\ repaired = None
    /\ heap = None /\ stage_calls = None /\ lines = None /\ vertex_offset = None

\* sliced = cls._keep_halfspace(mesh, origin, normal, tol)
Slice ==
    /\ mode = "clip" /\ pc = "start"
    /\ sliced' = _keep_halfspace(mesh, plane_origin, plane_normal, tol)
    /\ pc' = "sliced"
    /\ UNCHANGED <<mode, pieces, scan_paths, idx, geometries, mesh, plane_origin,
                   plane_normal, tol, resliced, repaired,
                   heap, stage_calls, lines, vertex_offset>>

\* the same call on the mesh the first call returned
Reslice ==
    /\ mode = "clip" /\ pc = "sliced"
    /\ resliced' = _keep_halfspace(sliced.mesh, plane_origin, plane_normal, tol)
    /\ pc' = "resliced"
    /\ UNCHANGED <<mode, pieces, scan_paths, idx, geometries, mesh, plane_origin,
                   plane_normal, tol, sliced, repaired,
                   heap, stage_calls, lines, vertex_offset>>

NextClip == Slice \/ Reslice

SpecClip == InitClip /\ [][NextClip]_vars

(***************************************************************************)
(* Piece Geometry Assembler: build_piece_meshes and the stages it calls.   *)
(* Here a mesh is the record of where it came from and of what each stage  *)
(* did to it; strings are sequences of one-character strings.              *)
(***************************************************************************)
\* str.lower() on the characters that occur
LowerChar(c) ==
    CASE c = "A" -> "a" [] c = "B" -> "b" [] c = "L" -> "l" [] c = "O" -> "o"
      [] c = "P" -> "p" [] c = "S" -> "s" [] c = "T" -> "t" [] c = "W" -> "w"
      [] OTHER -> c

Lower(str) == [k \in 1..Len(str) |-> LowerChar(str[k])]

\* str.replace(" ", "-")
ReplaceSpace(str) == [k \in 1..Len(str) |-> IF str[k] = " " THEN "-" ELSE str[k]]

\* _sanitize_piece_id
_sanitize_piece_id(piece_id) == Lower(ReplaceSpace(piece_id))

Digit(n) ==
    CASE n = 0 -> "0" [] n = 1 -> "1" [] n = 2 -> "2" [] n = 3 -> "3" [] n = 4 -> "4"
      [] n = 5 -> "5" [] n = 6 -> "6" [] n = 7 -> "7" [] n = 8 -> "8" [] n = 9 -> "9"

\* str(n) for n >= 0
RECURSIVE Decimal(_)
Decimal(n) == IF n < 10 THEN <<Digit(n)>> ELSE Decimal(n \div 10) \o <<Digit(n % 10)>>

\* piece.piece_id or f"piece-{idx + 1}"
PieceIdOrDefault(piece, i) ==
    IF piece.piece_id # <<>> THEN piece.piece_id
    ELSE <<"p", "i", "e", "c", "e", "-">> \o Decimal(i + 1)

SUPPORTED_EXTS ==
    {<<".", "o", "b", "j">>, <<".", "s", "t", "l">>,
     <<".", "p", "l", "y">>, <<".", "f", "b", "x">>}

\* candidate.suffix.lower() in cls.SUPPORTED_EXTS
Supported(path) == Lower(path.suffix) \in SUPPORTED_EXTS

\* scan_cycle = list(path for path in scan_paths if path and path.exists())
ScanCycleSupportedOnly(paths) ==
    SelectSeq(paths, LAMBDA q : q.present /\ q.exists /\ Lower(q.suffix) \in SUPPORTED_EXTS)

ScanCycle(paths) == SelectSeq(paths, LAMBDA q : q.present /\ q.exists)

\* candidate = scan_cycle[idx % len(scan_cycle)]
CandidateNext(scan_cycle, i) == scan_cycle[((i + 1) % Len(scan_cycle)) + 1]

Candidate(scan_cycle, i) == scan_cycle[(i % Len(scan_cycle)) + 1]

\* scaling by the threshold alone, a zero extent included
NormalizeBelowThreshold(m) ==
    LET max_extent == m.max_extent
        scale == IF max_extent < 50 THEN 1000 ELSE 1
    IN  [m EXCEPT !.max_extent = max_extent * scale,
                  !.stages = Append(@, [op |-> "normalize", scale |-> scale])]

\* _normalize_units: scale 1000 when 0 # max_extent < 50, else 1; on a copy
_normalize_units(m) ==
    LET max_extent == m.max_extent
        scale == IF max_extent # 0 /\ max_extent < 50 THEN 1000 ELSE 1
    IN  [m EXCEPT !.max_extent = max_extent * scale,
                  !.stages = Append(@, [op |-> "normalize", scale |-> scale])]

\* load_mesh, for a file that trimesh.load can read
load_mesh(path) ==
    _normalize_units([origin |-> "scan", source |-> path.name,
                      extents |-> <<>>, max_extent |-> path.max_extent,
                      stages |-> <<>>])

MaxOf(a, b) == IF a < b THEN b ELSE a
MinOf(a, b) == IF a < b THEN a ELSE b

\* height = max(200.0, min(2500.0, (piece.mass_kg or 400.0) * 4))
BoxHeight(piece) ==
    MaxOf(200, MinOf(2500, (IF piece.mass_kg # 0 THEN piece.mass_kg ELSE 400) * 4))

\* _synthetic_box: trimesh.creation.box(extents=(width, height, depth))
_synthetic_box(piece, i) ==
    [origin |-> "box", source |-> None,
     extents |-> <<600, BoxHeight(piece), 600>>,
     max_extent |-> MaxOf(600, BoxHeight(piece)),
     stages |-> <<>>]

\* slice_with_kuka: the plane through the centroid, normal (cos a, 0, sin a)
slice_with_kuka(m, angle_deg) ==
    [m EXCEPT !.stages = Append(@, [op |-> "slice", angle |-> angle_deg,
                                    origin |-> "centroid"])]

\* _fallback_center
_fallback_center(index) == <<index * 650 - 1500, 500 + index * 50, index * 120>>

\* a center that counts only when it declares all of x, y and z
CenterGetAllOrNothing(piece, key, default) ==
    IF ~piece.center_of_mass.is_none /\ piece.center_of_mass.keys = {"x", "y", "z"}
    THEN piece.center_of_mass.at[key]
    ELSE default

\* center.get(key, default), for center = piece.center_of_mass or {}
CenterGet(piece, key, default) ==
    IF ~piece.center_of_mass.is_none /\ key \in piece.center_of_mass.keys
    THEN piece.center_of_mass.at[key]
    ELSE default

\* apply_plan_transform
apply_plan_transform(m, piece, piece_index) ==
    LET fallback == _fallback_center(piece_index)
        translation == <<CenterGet(piece, "x", fallback[1]),
                         CenterGet(piece, "y", fallback[2]),
                         CenterGet(piece, "z", fallback[3])>>
    IN  [m EXCEPT !.stages = Append(@, [op |-> "transform",
                                        rotation |-> piece.optimal_cut_angle,
                                        translation |-> translation])]

\* remesh_watertight, on a mesh whose repair succeeds
RepairedMesh(m) == [m EXCEPT !.stages = Append(@, [op |-> "repair"])]

\* metadata={"cut_angle": float(angle or 0.0), "mass_kg": float(mass or 0.0)}
Metadata(piece) ==
    [cut_angle |-> piece.optimal_cut_angle, mass_kg |-> piece.mass_kg]

\* geometries.append(PieceGeometry(...))
PrependGeometry(gs, g) == <<g>> \o gs

AppendGeometry(gs, g) == Append(gs, g)

\* lines 41-67 for a piece whose load, if any, succeeds
PieceGeometry(piece, i, scan_cycle) ==
    LET piece_id == _sanitize_piece_id(PieceIdOrDefault(piece, i))
        useScan == scan_cycle # <<>> /\ Supported(Candidate(scan_cycle, i))
        m0 == IF useScan THEN load_mesh(Candidate(scan_cycle, i))
              ELSE _synthetic_box(piece, i)
        m1 == slice_with_kuka(m0, piece.optimal_cut_angle)
        m2 == apply_plan_transform(m1, piece, i)
        m3 == RepairedMesh(m2)
    IN  [piece_id |-> piece_id,
         mesh |-> m3,
         source_path |-> IF useScan THEN Candidate(scan_cycle, i).name ELSE None,
         metadata |-> Metadata(piece)]

\* trimesh.load raises on this candidate
LoadFails(scan_cycle, i) ==
    /\ scan_cycle # <<>>
    /\ Supported(Candidate(scan_cycle, i))
    /\ Candidate(scan_cycle, i).corrupt

(***************************************************************************)
(* Inputs of the assembler runs                                            *)
(***************************************************************************)
MaxPieces == 5
MaxScans == 3

\* a center_of_mass: None, or a dict with some of the keys x, y, z
NoCenter == [is_none |-> TRUE, keys |-> {}, at |-> [k \in {"x", "y", "z"} |-> 0]]

Center(keys, x, y, z) ==
    [is_none |-> FALSE, keys |-> keys,
     at |-> [k \in {"x", "y", "z"} |-> IF k = "x" THEN x ELSE IF k = "y" THEN y ELSE z]]

PlanCatalog ==
    << [piece_id |-> <<"B", "e", "a", "m", " ", "A">>, mass_kg |-> 400,
        center_of_mass |-> Center({"x", "y", "z"}, 10, 20, 30), optimal_cut_angle |-> 90],
       [piece_id |-> <<>>, mass_kg |-> 0,
        center_of_mass |-> NoCenter, optimal_cut_angle |-> 0],
       [piece_id |-> <<"W", "a", "l", "l">>, mass_kg |-> 1000,
        center_of_mass |-> Center({"x"}, 5, 0, 0), optimal_cut_angle |-> 180],
       [piece_id |-> <<"p", "4">>, mass_kg |-> 25,
        center_of_mass |-> Center({}, 0, 0, 0), optimal_cut_angle |-> 45],
       [piece_id |-> <<"S", "l", "a", "b", " ", "5">>, mass_kg |-> 625,
        center_of_mass |-> Center({"y", "z"}, 0, 7, 9), optimal_cut_angle |-> 30],
       [piece_id |-> <<"p", "o", "s", "t">>, mass_kg |-> 120,
        center_of_mass |-> Center({"x", "y", "z"}, 1, 2, 3), optimal_cut_angle |-> 135] >>

\* n consecutive plans of the catalog from position s on, wrapping round
PlanList(s, n) == [j \in 1..n |-> PlanCatalog[((s + j - 2) % Len(PlanCatalog)) + 1]]

PlanLists == {PlanList(s, n) : s \in 1..Len(PlanCatalog), n \in 0..MaxPieces}

ScanFile(name, exists, suffix, max_extent, corrupt) ==
    [present |-> TRUE, name |-> name, exists |-> exists, suffix |-> suffix,
     max_extent |-> max_extent, corrupt |-> corrupt]

ScanFiles ==
    {[present |-> FALSE, name |-> None, exists |-> FALSE, suffix |-> <<>>,
      max_extent |-> 0, corrupt |-> FALSE],
     ScanFile("a", TRUE, <<".", "o", "b", "j">>, 2, FALSE),
     ScanFile("b", TRUE, <<".", "S", "T", "L">>, 3000, FALSE),
     ScanFile("c", TRUE, <<".", "t", "x", "t">>, 10, FALSE),
     ScanFile("m", FALSE, <<".", "o", "b", "j">>, 0, FALSE),
     ScanFile("x", TRUE, <<".", "p", "l", "y">>, 0, TRUE)}

ScanLists == UNION {[1..n -> ScanFiles] : n \in 0..MaxScans}

InitBuild ==
    /\ mode = "build"
    /\ pc = "loop"
    /\ pieces \in PlanLists
    /\ scan_paths \in ScanLists
    /\ idx = 0
    /\ geometries = <<>>
    /\ mesh = None /\ plane_origin = None /\ plane_normal = None /\ tol = None
    /\ sliced = None /\ resliced = None /\ repaired = None
    /\ heap = None /\ stage_calls = None /\ lines = None /\ vertex_offset = None

\* one iteration of the loop of build_piece_meshes that completes its piece
BuildPiece ==
    /\ mode = "build" /\ pc = "loop"
    /\ idx < Len(pieces)
    /\ ~LoadFails(ScanCycle(scan_paths), idx)
    /\ geometries' = AppendGeometry(geometries,
                        PieceGeometry(pieces[idx + 1], idx, ScanCycle(scan_paths)))
    /\ idx' = idx + 1
    /\ UNCHANGED <<mode, pc, pieces, scan_paths, mesh, plane_origin, plane_normal,
                   tol, sliced, resliced, repaired,
                   heap, stage_calls, lines, vertex_offset>>

\* one iteration whose load_mesh raises: the exception leaves
\* build_piece_meshes, and nothing is returned
LoadRaises ==
    /\ mode = "build" /\ pc = "loop"
    /\ idx < Len(pieces)
    /\ LoadFails(ScanCycle(scan_paths), idx)
    /\ pc' = "raised"
    /\ UNCHANGED <<mode, pieces, scan_paths, idx, geometries, mesh, plane_origin,
                   plane_normal, tol, sliced, resliced, repaired,
                   heap, stage_calls, lines, vertex_offset>>

\* return geometries
Return ==
    /\ mode = "build" /\ pc = "loop"
    /\ idx = Len(pieces)
    /\ pc' = "done"
    /\ UNCHANGED <<mode, pieces, scan_paths, idx, geometries, mesh, plane_origin,
                   plane_normal, tol, sliced, resliced, repaired,
                   heap, stage_calls, lines, vertex_offset>>

NextBuild == BuildPiece \/ LoadRaises \/ Return

SpecBuild == InitBuild /\ [][NextBuild]_vars

(***************************************************************************)
(* Watertight Repairer: remesh_watertight on explicit meshes               *)
(***************************************************************************)
\* the three indices of a face in ascending order
SortedFace(f) ==
    LET lo == SeqMin(f[1], SeqMin(f[2], f[3]))
        hi == SeqMax(f[1], SeqMax(f[2], f[3]))
    IN  <<lo, f[1] + f[2] + f[3] - lo - hi, hi>>

\* the faces of m at the positions in at, order kept
KeepFacesAt(m, at) ==
    LET pos(k) == Cardinality({h \in at : h < k})
        nth(j) == CHOOSE k \in at : pos(k) = j - 1
    IN  Mesh(m.vertices, [j \in 1..Cardinality(at) |-> m.faces[nth(j)]])

\* mesh.remove_duplicate_faces(): one face is kept per set of three indices
remove_duplicate_faces(m) ==
    KeepFacesAt(m, {k \in 1..Len(m.faces) :
        \A h \in 1..(k - 1) : SortedFace(m.faces[h]) # SortedFace(m.faces[k])})

VCross(p, q) ==
    <<RSub(RMul(p[2], q[3]), RMul(p[3], q[2])),
      RSub(RMul(p[3], q[1]), RMul(p[1], q[3])),
      RSub(RMul(p[1], q[2]), RMul(p[2], q[1]))>>

\* twice the area vector of the triangle of face f
FaceNormal(m, f) ==
    VCross(VSub(m.vertices[f[2] + 1], m.vertices[f[1] + 1]),
           VSub(m.vertices[f[3] + 1], m.vertices[f[1] + 1]))

\* mesh.remove_degenerate_faces(): faces of zero area are dropped
remove_degenerate_faces(m) ==
    KeepFacesAt(m, {k \in 1..Len(m.faces) : FaceNormal(m, m.faces[k]) # VInt(0, 0, 0)})

\* the side of the plane through a, b, c on which p lies (its sign)
Orient(a, b, c, p) == VDot(VCross(VSub(b, a), VSub(c, a)), VSub(p, a))[1]

\* Qhull has no initial simplex: fewer than 4 points, or all of them coplanar
HullDegenerate(pts) ==
    ~\E a, b, c, d \in pts : Orient(a, b, c, d) # 0

\* mesh.convex_hull, for vertices no four of which are coplanar: the
\* triangles that have every other vertex on one side; Qhull raises when
\* it has no initial simplex
convex_hull(m) ==
    LET n == Len(m.vertices)
        P(i) == m.vertices[i + 1]
        facets == {f \in (0..(n - 1)) \X (0..(n - 1)) \X (0..(n - 1)) :
                     /\ f[1] < f[2] /\ f[2] < f[3]
                     /\ \/ \A i \in 0..(n - 1) : Orient(P(f[1]), P(f[2]), P(f[3]), P(i)) >= 0
                        \/ \A i \in 0..(n - 1) : Orient(P(f[1]), P(f[2]), P(f[3]), P(i)) <= 0}
    IN  IF HullDegenerate(Range(m.vertices))
        THEN [raised |-> TRUE, mesh |-> m]
        ELSE [raised |-> FALSE,
              mesh |-> remove_unreferenced_vertices(Mesh(m.vertices, SetToSeq(facets)))]

\* remesh_watertight: the mesh returned, or the exception of the hull fallback
remesh_watertight(m) ==
    LET cleaned == remove_unreferenced_vertices(fill_holes(
                       remove_degenerate_faces(remove_duplicate_faces(m))))
    IN  IF ~is_watertight(cleaned)
        THEN convex_hull(cleaned)
        ELSE [raised |-> FALSE, mesh |-> cleaned]

MaxRepairFaces == 4

\* four corners of a tetrahedron and a point inside it
RepairVertices ==
    << VInt(0, 0, 0), VInt(4, 0, 0), VInt(0, 4, 0), VInt(0, 0, 4), VInt(1, 1, 1) >>

\* every triangle on the five vertices, one of them a second time with the
\* other winding, and a face with a repeated vertex
RepairPool ==
    << <<0, 1, 2>>, <<0, 1, 3>>, <<0, 2, 3>>, <<1, 2, 3>>, <<2, 1, 0>>,
       <<0, 0, 1>>, <<0, 1, 4>>, <<0, 2, 4>>, <<0, 3, 4>>, <<1, 2, 4>>,
       <<1, 3, 4>>, <<2, 3, 4>> >>

RepairMeshes ==
    {KeepFacesAt(Mesh(RepairVertices, RepairPool), T) :
        T \in {U \in SUBSET (1..Len(RepairPool)) : Cardinality(U) <= MaxRepairFaces}}

InitRepair ==
    /\ mode = "repair"
    /\ pc = "start"
    /\ mesh \in RepairMeshes
    /\ repaired = None
    /\ pieces = None /\ scan_paths = None /\ idx = None /\ geometries = None
    /\ plane_origin = None /\ plane_normal = None /\ tol = None
    /\ sliced = None /\ resliced = None
    /\ heap = None /\ stage_calls = None /\ lines = None /\ vertex_offset = None

\* mesh = cls.remesh_watertight(mesh), returning
Repair ==
    /\ mode = "repair" /\ pc = "start"
    /\ LET r == remesh_watertight(mesh)
       IN  ~r.raised /\ repaired' = r.mesh
    /\ pc' = "returned"
    /\ UNCHANGED <<mode, pieces, scan_paths, idx, geometries, mesh, plane_origin,
                   plane_normal, tol, sliced, resliced,
                   heap, stage_calls, lines, vertex_offset>>

\* mesh = cls.remesh_watertight(mesh), the hull fallback raising
RepairRaises ==
    /\ mode = "repair" /\ pc = "start"
    /\ remesh_watertight(mesh).raised
    /\ pc' = "raised"
    /\ UNCHANGED <<mode, pieces, scan_paths, idx, geometries, mesh, plane_origin,
                   plane_normal, tol, sliced, resliced, repaired,
                   heap, stage_calls, lines, vertex_offset>>

NextRepair == Repair \/ RepairRaises

SpecRepair == InitRepair /\ [][NextRepair]_vars

(***************************************************************************)
(* Mesh objects: which stage copies and which works in place.  An object   *)
(* is a position of heap; a stage maps a heap and an object to the heap    *)
(* after the call and the object returned.                                 *)
(***************************************************************************)
\* the same object under a second name
MeshAlias(h, r) == [heap |-> h, ref |-> r]

\* mesh.copy(): a new object with the contents of r
MeshCopy(h, r) == [heap |-> Append(h, h[r]), ref |-> Len(h) + 1]

\* an object built from scratch: trimesh.load, trimesh.Trimesh(...),
\* trimesh.creation.box, mesh.convex_hull
MeshNew(h, v) == [heap |-> Append(h, v), ref |-> Len(h) + 1]

\* a method that changes the object w.ref where it stands
InPlace(w, v) == [heap |-> [w.heap EXCEPT ![w.ref] = v], ref |-> w.ref]

\* trimesh.load(path, force="mesh", skip_materials=True, process=True)
LoadedMesh(path) ==
    [origin |-> "scan", source |-> path.name, extents |-> <<>>,
     max_extent |-> path.max_extent, stages |-> <<>>]

\* _normalize_units: normalized = mesh.copy(); normalized.apply_scale(scale)
NormalizeUnitsCall(h, r) ==
    LET normalized == MeshCopy(h, r)
    IN  InPlace(normalized, _normalize_units(normalized.heap[normalized.ref]))

\* slice_with_kuka / _keep_halfspace: mesh.copy() when no face is left,
\* a mesh built from new_vertices and new_faces otherwise
KeepHalfspaceCall(h, r, angle_deg, no_new_faces) ==
    IF no_new_faces THEN MeshCopy(h, r)
    ELSE MeshNew(h, slice_with_kuka(h[r], angle_deg))

\* apply_plan_transform: mesh = mesh.copy(); mesh.apply_transform(transform)
ApplyPlanTransformCall(h, r, piece, piece_index) ==
    LET copied == MeshCopy(h, r)
    IN  InPlace(copied, apply_plan_transform(copied.heap[copied.ref], piece, piece_index))

\* remesh_watertight: mesh = mesh.copy(); the four clean-ups in place;
\* mesh.convex_hull, a new object, when the result is not watertight
RemeshWatertightCall(h, r, watertight) ==
    LET copied == MeshCopy(h, r)
        cleaned == InPlace(copied, RepairedMesh(copied.heap[copied.ref]))
    IN  IF watertight THEN cleaned
        ELSE MeshNew(cleaned.heap,
                     [cleaned.heap[cleaned.ref] EXCEPT
                          !.stages = Append(@, [op |-> "hull"])])

MaxExtent == 51
MaxStagePieces == 2

\* largest bounding-box extents of the scan: 0..MaxExtent and the two
\* values round the upper threshold 100000
ScanExtents == (0..MaxExtent) \cup {100000, 100001}

StageScans ==
    {<<>>} \cup {<<ScanFile("s", TRUE, <<".", "o", "b", "j">>, e, FALSE)>> : e \in ScanExtents}

\* the record of a completed call: the object passed (0 for none) with its
\* contents at the call, the number of objects before it, the object returned
StageCall(stage, in, h, w) ==
    [stage |-> stage, in |-> in, before |-> IF in = 0 THEN w.heap[w.ref] ELSE h[in],
     size |-> Len(h), out |-> w.ref]

\* the object the last completed call returned
Current == stage_calls[Len(stage_calls)].out

InitStages ==
    /\ mode = "stages"
    /\ pc = "load"
    /\ pieces \in {PlanList(s, n) : s \in 1..Len(PlanCatalog), n \in 1..MaxStagePieces}
    /\ scan_paths \in StageScans
    /\ idx = 0
    /\ heap = <<>>
    /\ stage_calls = <<>>
    /\ geometries = None /\ mesh = None /\ plane_origin = None
    /\ plane_normal = None /\ tol = None /\ sliced = None /\ resliced = None
    /\ repaired = None /\ lines = None /\ vertex_offset = None

\* the frame of a stage: everything but pc, idx, heap and stage_calls
StageFrame ==
    UNCHANGED <<mode, pieces, scan_paths, geometries, mesh, plane_origin,
                plane_normal, tol, sliced, resliced, repaired, lines, vertex_offset>>

\* trimesh.load in load_mesh
LoadScan ==
    /\ mode = "stages" /\ pc = "load"
    /\ ScanCycle(scan_paths) # <<>>
    /\ LET w == MeshNew(heap, LoadedMesh(Candidate(ScanCycle(scan_paths), idx)))
       IN  /\ heap' = w.heap
           /\ stage_calls' = Append(stage_calls, StageCall("load", 0, heap, w))
    /\ pc' = "normalize"
    /\ UNCHANGED idx /\ StageFrame

\* mesh = cls._normalize_units(mesh) in load_mesh
NormalizeStage ==
    /\ mode = "stages" /\ pc = "normalize"
    /\ LET w == NormalizeUnitsCall(heap, Current)
       IN  /\ heap' = w.heap
           /\ stage_calls' = Append(stage_calls, StageCall("normalize", Current, heap, w))
    /\ pc' = "slice"
    /\ UNCHANGED idx /\ StageFrame

\* mesh = cls._synthetic_box(piece, idx)
SyntheticBoxStage ==
    /\ mode = "stages" /\ pc = "load"
    /\ ScanCycle(scan_paths) = <<>>
    /\ LET w == MeshNew(heap, _synthetic_box(pieces[idx + 1], idx))
       IN  /\ heap' = w.heap
           /\ stage_calls' = Append(stage_calls, StageCall("box", 0, heap, w))
    /\ pc' = "slice"
    /\ UNCHANGED idx /\ StageFrame

\* sliced = cls.slice_with_kuka(mesh, piece.optimal_cut_angle)
SliceStage ==
    /\ mode = "stages" /\ pc = "slice"
    /\ \E no_new_faces \in BOOLEAN :
          LET w == KeepHalfspaceCall(heap, Current,
                                     pieces[idx + 1].optimal_cut_angle, no_new_faces)
          IN  /\ heap' = w.heap
              /\ stage_calls' = Append(stage_calls, StageCall("slice", Current, heap, w))
    /\ pc' = "transform"
    /\ UNCHANGED idx /\ StageFrame

\* transformed = cls.apply_plan_transform(sliced, piece, idx)
TransformStage ==
    /\ mode = "stages" /\ pc = "transform"
    /\ LET w == ApplyPlanTransformCall(heap, Current, pieces[idx + 1], idx)
       IN  /\ heap' = w.heap
           /\ stage_calls' = Append(stage_calls, StageCall("transform", Current, heap, w))
    /\ pc' = "remesh"
    /\ UNCHANGED idx /\ StageFrame

\* repaired = cls.remesh_watertight(transformed); on to the next piece
RemeshStage ==
    /\ mode = "stages" /\ pc = "remesh"
    /\ \E watertight \in BOOLEAN :
          LET w == RemeshWatertightCall(heap, Current, watertight)
          IN  /\ heap' = w.heap
              /\ stage_calls' = Append(stage_calls, StageCall("remesh", Current, heap, w))
    /\ idx' = idx + 1
    /\ pc' = IF idx + 1 < Len(pieces) THEN "load" ELSE "done"
    /\ StageFrame

NextStages ==
    \/ LoadScan \/ NormalizeStage \/ SyntheticBoxStage
    \/ SliceStage \/ TransformStage \/ RemeshStage

SpecStages == InitStages /\ [][NextStages]_vars

(***************************************************************************)
(* OBJ serializer: pieces_to_obj (src/backend/algorithm/obj_exporter.py).  *)
(* Lengths are exact rationals in metres; a line is its leading letter     *)
(* and the fields the f-string puts after it, each a sequence of           *)
(* characters.                                                             *)
(***************************************************************************)
\* _normalize_center: each coordinate declared or its own default
_normalize_center(piece, i) ==
    LET center == piece.center_of_mass
        has(k) == ~center.is_none /\ k \in center.keys
        fallback_x == RSub(Rat(i * 65, 100), RInt(2))
    IN  << IF has("x") THEN RInt(center.at["x"]) ELSE fallback_x,
           IF has("y") THEN RInt(center.at["y"]) ELSE RAdd(Rat(6, 10), Rat(i * 5, 100)),
           IF has("z") THEN RInt(center.at["z"]) ELSE RInt(0) >>

\* max(0.25, min(2.5, piece.mass_kg / 120 if piece.mass_kg else 0.4))
ObjHeight(piece) ==
    LET h == IF piece.mass_kg # 0 THEN Rat(piece.mass_kg, 120) ELSE Rat(4, 10)
        capped == IF RLt(Rat(25, 10), h) THEN Rat(25, 10) ELSE h
    IN  IF RLt(capped, Rat(25, 100)) THEN Rat(25, 100) ELSE capped

\* math.cos and math.sin of an angle in degrees, to three decimals
Cos(deg) ==
    CASE deg = 0 -> RInt(1) [] deg = 30 -> Rat(866, 1000) [] deg = 45 -> Rat(707, 1000)
      [] deg = 90 -> RInt(0) [] deg = 135 -> Rat(-707, 1000) [] deg = 180 -> RInt(-1)

Sin(deg) ==
    CASE deg = 0 -> RInt(0) [] deg = 30 -> Rat(1, 2) [] deg = 45 -> Rat(707, 1000)
      [] deg = 90 -> RInt(1) [] deg = 135 -> Rat(707, 1000) [] deg = 180 -> RInt(0)

\* _piece_vertices: the 8 corners of the box, turned about Y and moved
_piece_vertices(piece, i) ==
    LET half_w == Rat(3, 10)
        half_d == Rat(3, 10)
        half_h == RDiv(ObjHeight(piece), RInt(2))
        base_vertices ==
            << <<RNeg(half_w), RNeg(half_h), RNeg(half_d)>>,
               <<half_w, RNeg(half_h), RNeg(half_d)>>,
               <<half_w, half_h, RNeg(half_d)>>,
               <<RNeg(half_w), half_h, RNeg(half_d)>>,
               <<RNeg(half_w), RNeg(half_h), half_d>>,
               <<half_w, RNeg(half_h), half_d>>,
               <<half_w, half_h, half_d>>,
               <<RNeg(half_w), half_h, half_d>> >>
        cos_a == Cos(piece.optimal_cut_angle)
        sin_a == Sin(piece.optimal_cut_angle)
        c == _normalize_center(piece, i)
        rotated(v) ==
            LET rx == RSub(RMul(v[1], cos_a), RMul(v[3], sin_a))
                rz == RAdd(RMul(v[1], sin_a), RMul(v[3], cos_a))
            IN  <<RAdd(rx, c[1]), RAdd(v[2], c[2]), RAdd(rz, c[3])>>
    IN  [j \in 1..Len(base_vertices) |-> rotated(base_vertices[j])]

\* the first k decimals of rem / d, for 0 <= rem < d
RECURSIVE Decimals(_, _, _)
Decimals(rem, d, k) ==
    IF k = 0 THEN <<>>
    ELSE <<(rem * 10) \div d>> \o Decimals((rem * 10) % d, d, k - 1)

RECURSIVE DigitsValue(_)
DigitsValue(ds) ==
    IF ds = <<>> THEN 0 ELSE DigitsValue(SubSeq(ds, 1, Len(ds) - 1)) * 10 + ds[Len(ds)]

\* six characters for 0 <= n < 1000000
SixDigits(n) ==
    [k \in 1..6 |-> Digit((n \div (10 ^ (6 - k))) % 10)]

\* f"{x:.6f}": sign, whole part, point, six decimals, the seventh rounded
Fixed6(x) ==
    LET a == Abs(x[1])
        ds == Decimals(a % x[2], x[2], 7)
        micro == DigitsValue(SubSeq(ds, 1, 6)) + (IF ds[7] >= 5 THEN 1 ELSE 0)
        whole == (a \div x[2]) + (IF micro = 1000000 THEN 1 ELSE 0)
        frac == IF micro = 1000000 THEN 0 ELSE micro
    IN  (IF x[1] < 0 THEN <<"-">> ELSE <<>>)
           \o Decimal(whole) \o <<".">> \o SixDigits(frac)

Line(tag, fields) == [tag |-> tag, fields |-> fields]

\* lines.append(f"v {vx:.6f} {vy:.6f} {vz:.6f}")
VertexLine(v) == Line("v", <<Fixed6(v[1]), Fixed6(v[2]), Fixed6(v[3])>>)

\* faces = [(1, 2, 3, 4), ...]
QuadFaces ==
    << <<1, 2, 3, 4>>, <<5, 6, 7, 8>>, <<1, 5, 8, 4>>,
       <<2, 6, 7, 3>>, <<4, 3, 7, 8>>, <<1, 2, 6, 5>> >>

\* lines.append(f"f {vertex_offset + a} {vertex_offset + b} ...")
FaceLine(offset, f) ==
    Line("f", [j \in 1..Len(f) |-> Decimal(offset + f[j])])

\* the offset left where it was
SameOffset(offset, vertices) == offset

\* vertex_offset += len(vertices)
NextOffset(offset, vertices) == offset + Len(vertices)

\* the lines one piece adds: its name, its vertices, its faces
PieceLines(piece, i, offset) ==
    LET vertices == _piece_vertices(piece, i)
    IN  <<Line("o", <<PieceIdOrDefault(piece, i)>>)>>
           \o [j \in 1..Len(vertices) |-> VertexLine(vertices[j])]
           \o [j \in 1..Len(QuadFaces) |-> FaceLine(offset, QuadFaces[j])]

InitObj ==
    /\ mode = "obj"
    /\ pc = "loop"
    /\ pieces \in PlanLists
    /\ idx = 0
    /\ lines = <<Line("#", <<<<"ReBuild Intelligence OBJ export">>>>)>>
    /\ vertex_offset = 0
    /\ scan_paths = None /\ geometries = None /\ mesh = None /\ plane_origin = None
    /\ plane_normal = None /\ tol = None /\ sliced = None /\ resliced = None
    /\ repaired = None /\ heap = None /\ stage_calls = None

\* one iteration of the loop of pieces_to_obj
ExportPiece ==
    /\ mode = "obj" /\ pc = "loop"
    /\ idx < Len(pieces)
    /\ lines' = lines \o PieceLines(pieces[idx + 1], idx, vertex_offset)
    /\ vertex_offset' = NextOffset(vertex_offset, _piece_vertices(pieces[idx + 1], idx))
    /\ idx' = idx + 1
    /\ UNCHANGED <<mode, pc, pieces, scan_paths, geometries, mesh, plane_origin,
                   plane_normal, tol, sliced, resliced, repaired, heap, stage_calls>>

\* return "\n".join(lines) + "\n": every line ends with a newline
JoinLines ==
    /\ mode = "obj" /\ pc = "loop"
    /\ idx = Len(pieces)
    /\ pc' = "done"
    /\ UNCHANGED <<mode, pieces, scan_paths, idx, geometries, mesh, plane_origin,
                   plane_normal, tol, sliced, resliced, repaired, heap, stage_calls,
                   lines, vertex_offset>>

NextObj == ExportPiece \/ JoinLines

SpecObj == InitObj /\ [][NextObj]_vars

(***************************************************************************)
(* Properties of the assembler                                             *)
(***************************************************************************)
\* the record a stage left on a mesh
StageOf(m, op) == CHOOSE st \in Range(m.stages) : st.op = op

\* the scan files of the input list that exist, in list order
ExistingScans == SelectSeq(scan_paths, LAMBDA q : q.present /\ q.exists)

HasSupportedExt(q) ==
    \E e \in SUPPORTED_EXTS : Len(e) = Len(q.suffix) /\
        \A k \in 1..Len(e) : LowerChar(q.suffix[k]) = e[k]

\* C1: when no load fails, build_piece_meshes returns one PieceGeometry per
\* PiecePlan, the k-th built from the k-th plan: its metadata, its cut and
\* its placement carry plan k's cut angle and mass.
C1_OnePerPlanInOrder ==
    (mode = "build" /\ pc = "done") =>
        /\ Len(geometries) = Len(pieces)
        /\ \A k \in 1..Len(geometries) :
              /\ geometries[k].metadata.cut_angle = pieces[k].optimal_cut_angle
              /\ geometries[k].metadata.mass_kg = pieces[k].mass_kg
              /\ StageOf(geometries[k].mesh, "slice").angle = pieces[k].optimal_cut_angle
              /\ StageOf(geometries[k].mesh, "transform").rotation
                    = pieces[k].optimal_cut_angle

\* a returned batch of at least three different plans
C1_Witness ==
    /\ mode = "build" /\ pc = "done"
    /\ Len(pieces) >= 3
    /\ Len(geometries) = Len(pieces)
    /\ \E k \in 1..Len(geometries) : geometries[k].source_path # None

\* C2: with n >= 1 scan files in the cycle, the plan at 0-based index i gets
\* the file at position i mod n: a piece built from a scan is built from
\* that one, and every piece is when all the n files have a supported
\* extension.
C2_ScanCycling ==
    (mode = "build" /\ Len(ExistingScans) >= 1) =>
        \A k \in 1..Len(geometries) :
            LET at == ExistingScans[((k - 1) % Len(ExistingScans)) + 1]
            IN  /\ geometries[k].source_path # None
                      => geometries[k].source_path = at.name
                /\ (\A j \in 1..Len(ExistingScans) : HasSupportedExt(ExistingScans[j]))
                      => /\ geometries[k].source_path = at.name
                         /\ geometries[k].mesh.source = at.name

\* 2 scan files and 5 plans: the files go to the plans in the order 0,1,0,1,0
C2_Witness ==
    /\ mode = "build" /\ pc = "done"
    /\ Len(pieces) = 5
    /\ Len(scan_paths) = 2
    /\ Len(ExistingScans) = 2
    /\ ExistingScans[1].name # ExistingScans[2].name
    /\ [k \in 1..5 |-> geometries[k].source_path]
          = [k \in 1..5 |-> ExistingScans[IF k % 2 = 1 THEN 1 ELSE 2].name]

\* C3 as stated: a piece is given a synthetic box only when no existing scan
\* file with a supported extension is available at all.
C3_BoxOnlyWithoutUsableScan ==
    mode = "build" =>
        \A k \in 1..Len(geometries) :
            geometries[k].mesh.origin = "box"
                => ~\E j \in 1..Len(ExistingScans) : HasSupportedExt(ExistingScans[j])

\* C3 amended: the cycle holds every existing scan file whatever its
\* extension; piece i is given a synthetic box exactly when no scan file
\* exists or the one at position i mod n has an unsupported extension.
C3_BoxIffCandidateUnusable ==
    mode = "build" =>
        \A k \in 1..Len(geometries) :
            geometries[k].mesh.origin = "box"
                <=> \/ Len(ExistingScans) = 0
                    \/ ~HasSupportedExt(ExistingScans[((k - 1) % Len(ExistingScans)) + 1])

\* a piece is given a box although a supported scan file exists
C3_Witness ==
    /\ mode = "build"
    /\ \E k \in 1..Len(geometries) : geometries[k].mesh.origin = "box"
    /\ \E j \in 1..Len(ExistingScans) : HasSupportedExt(ExistingScans[j])

\* C4: the synthetic box of a piece is clamp(mass_kg * 4, 200, 2500) high.
C4_BoxHeightClamp ==
    mode = "build" =>
        \A k \in 1..Len(geometries) :
            geometries[k].mesh.origin = "box" =>
                LET h == pieces[k].mass_kg * 4
                IN  geometries[k].mesh.extents[2]
                       = (IF h < 200 THEN 200 ELSE IF h > 2500 THEN 2500 ELSE h)

\* what a plan declares of its center of mass
Declared(piece) ==
    IF piece.center_of_mass.is_none THEN {} ELSE piece.center_of_mass.keys

DeclaredAt(piece) ==
    <<piece.center_of_mass.at["x"], piece.center_of_mass.at["y"],
      piece.center_of_mass.at["z"]>>

\* the fallback position of the k-th piece (k counted from 1)
FallbackAt(k) == <<(k - 1) * 650 - 1500, 500 + (k - 1) * 50, (k - 1) * 120>>

\* C11: the translation of apply_plan_transform is the declared center of
\* mass (x, y, z) when one is present and the fallback of the piece's index
\* otherwise, never a mix of declared and fallback coordinates.
C11_DeclaredOrFallbackNeverMixed ==
    mode = "build" =>
        \A k \in 1..Len(geometries) :
            LET tr == StageOf(geometries[k].mesh, "transform").translation
            IN  /\ Declared(pieces[k]) # {} => tr = DeclaredAt(pieces[k])
                /\ Declared(pieces[k]) = {} => tr = FallbackAt(k)
                /\ tr \in {DeclaredAt(pieces[k]), FallbackAt(k)}

\* C11 (amended): each coordinate of the translation is taken on its own:
\* the declared value when the center of mass has that key, the fallback of
\* the piece's index for that coordinate otherwise; so a complete center is
\* used as declared, a missing or empty one gives the fallback, and a
\* partial one gives a mix of the two.
C11_PerCoordinateFallback ==
    mode = "build" =>
        \A k \in 1..Len(geometries) :
            LET tr == StageOf(geometries[k].mesh, "transform").translation
                key == <<"x", "y", "z">>
            IN  \A c \in 1..3 :
                    tr[c] = IF key[c] \in Declared(pieces[k])
                            THEN DeclaredAt(pieces[k])[c]
                            ELSE FallbackAt(k)[c]

\* a returned batch with a complete, a missing and a partial center of mass
C11_Witness ==
    /\ mode = "build" /\ pc = "done"
    /\ \E k \in 1..Len(geometries) : Declared(pieces[k]) = {"x", "y", "z"}
    /\ \E k \in 1..Len(geometries) : Declared(pieces[k]) = {}
    /\ \E k \in 1..Len(geometries) :
           /\ Declared(pieces[k]) \notin {{}, {"x", "y", "z"}}
           /\ StageOf(geometries[k].mesh, "transform").translation
                  \notin {DeclaredAt(pieces[k]), FallbackAt(k)}

\* what the caller of build_piece_meshes receives: the list on return,
\* nothing when an exception left the call
Returned == IF pc = "done" THEN geometries ELSE <<>>

\* the positions (from 0) of the pieces whose scan loads, or that need none
Loadable == {i \in 0..(Len(pieces) - 1) : ~LoadFails(ScanCycle(scan_paths), i)}

\* C14: a scan that fails to load is isolated to its piece: the failure
\* surfaces without a retry, the other pieces of the batch are still
\* processed, and the batch is not aborted.
C14_LoadFailureIsolated ==
    (mode = "build" /\ pc \in {"done", "raised"}) =>
        /\ idx = Len(pieces)
        /\ Len(Returned) = Cardinality(Loadable)

\* the completed calls of one stage
StageCalls(stage) ==
    IF mode # "stages" THEN {}
    ELSE {stage_calls[k] : k \in {j \in 1..Len(stage_calls) : stage_calls[j].stage = stage}}

\* the factor _normalize_units applied in a call
ScaleOf(call) == StageOf(heap[call.out], "normalize").scale

\* C12: a mesh whose largest extent is below 50 is scaled by 1000, a mesh
\* whose largest extent is 50 or more is left at scale 1; this holds for
\* every extent below 50, a largest extent of 0 included.
C12_ScaledWheneverBelow50 ==
    \A call \in StageCalls("normalize") :
        /\ call.before.max_extent < 50 => ScaleOf(call) = 1000
        /\ call.before.max_extent >= 50 => ScaleOf(call) = 1
        /\ heap[call.out].max_extent = call.before.max_extent * ScaleOf(call)

\* C12 (amended): a mesh is scaled by 1000 exactly when its largest extent
\* is above 0 and below 50; a largest extent of 0, like one of 50 or more,
\* leaves the scale at 1.
C12_ScaledWhenPositiveBelow50 ==
    \A call \in StageCalls("normalize") :
        LET max_extent == call.before.max_extent
        IN  /\ (0 < max_extent /\ max_extent < 50) => ScaleOf(call) = 1000
            /\ (max_extent = 0 \/ max_extent >= 50) => ScaleOf(call) = 1
            /\ heap[call.out].max_extent = max_extent * ScaleOf(call)

\* a scan of extent 0 has been normalized
C12_Witness ==
    \E call \in StageCalls("normalize") :
        call.before.max_extent = 0 /\ ScaleOf(call) = 1

\* C15: every stage (_normalize_units, _keep_halfspace with its fallback,
\* apply_plan_transform, remesh_watertight) leaves the mesh it was given
\* as it was and returns a mesh object that did not exist before the call;
\* so the objects the calls return are all different, and no piece's result
\* is the loaded mesh or a mesh of another piece.
C15_StagesCopyTheirInput ==
    mode = "stages" =>
        /\ \A k \in 1..Len(stage_calls) :
              LET call == stage_calls[k]
              IN  /\ call.out \in 1..Len(heap)
                  /\ call.out > call.size
                  /\ call.in # 0 =>
                        /\ call.out # call.in
                        /\ heap[call.in] = call.before
        /\ \A j, k \in 1..Len(stage_calls) :
              j # k => stage_calls[j].out # stage_calls[k].out

\* two pieces built from one scan, with a scaled mesh, a clip that fell
\* back to a copy and a repair that ended in the convex hull
C15_Witness ==
    /\ mode = "stages" /\ pc = "done"
    /\ Cardinality(StageCalls("remesh")) = 2
    /\ \E call \in StageCalls("normalize") : ScaleOf(call) = 1000
    /\ \E call \in StageCalls("slice") : heap[call.out] = call.before
    /\ \E call \in StageCalls("slice") : heap[call.out] # call.before
    /\ \E call \in StageCalls("remesh") :
          \E st \in Range(heap[call.out].stages) : st.op = "hull"

(***************************************************************************)
(* Properties of the OBJ serializer                                        *)
(***************************************************************************)
\* int(field) for a field of decimal digits
RECURSIVE ParseDecimal(_)
ParseDecimal(cs) ==
    IF cs = <<>> THEN 0
    ELSE ParseDecimal(SubSeq(cs, 1, Len(cs) - 1)) * 10
            + (CHOOSE n \in 0..9 : Digit(n) = cs[Len(cs)])

\* the positions of the lines with a tag, up to position j
Tagged(tag, j) ==
    IF mode # "obj" THEN {} ELSE {i \in 1..SeqMin(j, Len(lines)) : lines[i].tag = tag}

\* the lines of the k-th piece (k from 0): from its "o" line to the next
PieceBlock(k) ==
    IF mode # "obj" THEN {}
    ELSE {j \in 1..Len(lines) : Cardinality(Tagged("o", j)) = k + 1}

\* the 1-based number an OBJ reader gives the vertex line at position j
VertexNumber(j) == Cardinality(Tagged("v", j))

\* C13: pieces_to_obj emits for every piece exactly 8 vertex lines and 6
\* face lines of four indices; the face lines of the k-th piece (k from 0)
\* use only the indices 8k+1..8k+8, which are the numbers of that piece's
\* own vertex lines, so no index is shared between pieces.
C13_EightVerticesSixFacesOwnIndices ==
    mode = "obj" =>
        /\ Cardinality(Tagged("o", Len(lines))) = idx
        /\ \A k \in 0..(idx - 1) :
              LET vs == {j \in PieceBlock(k) : lines[j].tag = "v"}
                  fs == {j \in PieceBlock(k) : lines[j].tag = "f"}
              IN  /\ Cardinality(vs) = 8
                  /\ Cardinality(fs) = 6
                  /\ {VertexNumber(j) : j \in vs} = (8 * k + 1)..(8 * k + 8)
                  /\ \A j \in fs :
                        /\ Len(lines[j].fields) = 4
                        /\ \A c \in 1..4 :
                              ParseDecimal(lines[j].fields[c]) \in (8 * k + 1)..(8 * k + 8)

\* a finished export of at least three pieces
C13_Witness ==
    /\ mode = "obj" /\ pc = "done"
    /\ idx >= 3
    /\ Cardinality(Tagged("f", Len(lines))) = 6 * idx

(***************************************************************************)
(* Properties of the clipper                                               *)
(***************************************************************************)
\* the completed _keep_halfspace calls of a state, each with its input mesh
Calls ==
    IF mode # "clip" THEN {}
    ELSE (IF pc \in {"sliced", "resliced"} THEN {[in |-> mesh, out |-> sliced]} ELSE {})
         \cup (IF pc = "resliced" THEN {[in |-> sliced.mesh, out |-> resliced]} ELSE {})

\* side c of face f crosses the plane: one end has d >= -tol, the other d < -tol
Crosses(call, f, c) ==
    LET dc == call.out.distances[f[c] + 1]
        dn == call.out.distances[f[(c % 3) + 1] + 1]
    IN  RGeq(dc, RNeg(tol)) # RGeq(dn, RNeg(tol))

\* the (clip, side) pairs of a call whose side crosses the plane
Crossings(call) ==
    {<<r, c>> \in (1..Len(call.out.clips)) \X (1..3) :
        Crosses(call, call.out.clips[r].face, c)}

\* the unordered endpoint pair of a crossing
Ends(call, x) ==
    LET f == call.out.clips[x[1]].face IN {f[x[2]], f[(x[2] % 3) + 1]}

\* the index _clip_face emitted for crossing x: it follows, in the clipped
\* polygon, the retained start vertices and the crossings of the sides before
SplitIndex(call, x) ==
    LET f == call.out.clips[x[1]].face
        kept == Cardinality({c \in 1..x[2] :
                    RGeq(call.out.distances[f[c] + 1], RNeg(tol))})
        cut == Cardinality({c \in 1..x[2] : Crosses(call, f, c)})
    IN  call.out.clips[x[1]].clipped[kept + cut]

\* C5: within one _keep_halfspace call at most one vertex is created per
\* crossed edge (unordered endpoint pair), and every face that has a crossed
\* edge references the same new vertex index for it, whichever way it walks it.
C5_OneVertexPerCrossedEdge ==
    \A call \in Calls :
        /\ Len(call.out.new_vertices) - Len(call.in.vertices)
              <= Cardinality({Ends(call, x) : x \in Crossings(call)})
        /\ \A x \in Crossings(call) :
              SplitIndex(call, x) >= Len(call.in.vertices)
        /\ \A x, y \in Crossings(call) :
              Ends(call, x) = Ends(call, y) => SplitIndex(call, x) = SplitIndex(call, y)

\* a crossed edge shared by two faces that walk it in opposite directions
C5_Witness ==
    \E call \in Calls : \E x, y \in Crossings(call) :
        /\ x[1] # y[1]
        /\ Ends(call, x) = Ends(call, y)
        /\ call.out.clips[x[1]].face[x[2]] # call.out.clips[y[1]].face[y[2]]

\* classification of a face of a call's input by its three distances
FaceAllKept(call, f) ==
    \A c \in 1..3 : RGeq(call.out.distances[f[c] + 1], RNeg(tol))

FaceAllCut(call, f) ==
    \A c \in 1..3 : RLt(call.out.distances[f[c] + 1], RNeg(tol))

\* C6: a face with all three d >= -tol is in the built face list unchanged,
\* a face with all three d < -tol adds no face to it, and exactly the faces
\* with mixed distances are handed to _clip_face (in input order).
C6_FaceClassification ==
    \A call \in Calls :
        LET fs == call.in.faces
            keptAt == {k \in 1..Len(fs) : FaceAllKept(call, fs[k])}
            mixedAt == {k \in 1..Len(fs) :
                          ~FaceAllKept(call, fs[k]) /\ ~FaceAllCut(call, fs[k])}
            fanned == {<<r, i>> \in (1..Len(call.out.clips)) \X (1..2) :
                          i <= Len(call.out.clips[r].clipped) - 2}
        IN  /\ \A k \in keptAt : \E j \in 1..Len(call.out.new_faces) :
                   call.out.new_faces[j] = fs[k]
            /\ Len(call.out.clips) = Cardinality(mixedAt)
            /\ \A r \in 1..Len(call.out.clips) :
                   \E k \in mixedAt :
                      /\ call.out.clips[r].face = fs[k]
                      /\ Cardinality({h \in mixedAt : h < k}) = r - 1
            /\ Len(call.out.new_faces) = Cardinality(keptAt) + Cardinality(fanned)

\* one call meets a kept face whose distance is exactly -tol, a cut face and a
\* mixed face
C6_Witness ==
    \E call \in Calls :
        /\ \E k \in 1..Len(call.in.faces) :
              /\ FaceAllKept(call, call.in.faces[k])
              /\ \E c \in 1..3 :
                    call.out.distances[call.in.faces[k][c] + 1] = RNeg(tol)
        /\ \E k \in 1..Len(call.in.faces) : FaceAllCut(call, call.in.faces[k])
        /\ call.out.clips # <<>>

\* C7: when every vertex of the mesh has d < -tol, _keep_halfspace returns a
\* mesh equal to its input (same vertices, same faces).
C7_FullRemovalFallback ==
    \A call \in Calls :
        (\A i \in 1..Len(call.in.vertices) : RLt(call.out.distances[i], RNeg(tol)))
        => /\ call.out.mesh = call.in
           /\ Len(call.out.mesh.vertices) = Len(call.in.vertices)
           /\ Len(call.out.mesh.faces) = Len(call.in.faces)

C7_Witness ==
    /\ mode = "clip" /\ pc = "sliced"
    /\ \A i \in 1..Len(mesh.vertices) : RLt(sliced.distances[i], RNeg(tol))
    /\ Len(mesh.faces) >= 2
    /\ sliced.fallback

\* C8: clipping the clipped mesh again with the same plane and tolerance
\* returns the same mesh; the second pass removes and splits no face.
C8_Idempotent ==
    (mode = "clip" /\ pc = "resliced") =>
        /\ resliced.mesh = sliced.mesh
        /\ resliced.clips = <<>>
        /\ ~sliced.fallback => resliced.new_faces = sliced.mesh.faces

\* the first pass split a face and dropped another
C8_Witness ==
    /\ mode = "clip" /\ pc = "resliced"
    /\ sliced.clips # <<>>
    /\ \E k \in 1..Len(mesh.faces) :
          \A c \in 1..3 : RLt(sliced.distances[mesh.faces[k][c] + 1], RNeg(tol))

\* the box cut through its centre by the plane with normal (1, 0, 0)
CentreCut ==
    /\ mode = "clip" /\ pc \in {"sliced", "resliced"}
    /\ mesh = Box
    /\ plane_origin = VInt(0, 0, 0)
    /\ plane_normal = VInt(1, 0, 0)
    /\ RLt(tol, RInt(HalfSide))

\* C9 as stated: the retained half of the cube has 6 faces and 8 vertices.
C9_SixFacesEightVertices ==
    CentreCut => Len(sliced.mesh.faces) = 6 /\ Len(sliced.mesh.vertices) = 8

\* C9 amended: the retained half has 14 triangles (2 kept, 12 from the 8 split
\* triangles) on 12 vertices (4 kept corners, 8 interpolated, one per crossed
\* edge).
C9_FourteenFacesTwelveVertices ==
    CentreCut =>
        /\ Len(sliced.new_faces) = 14
        /\ Len(sliced.clips) = 8
        /\ Len(sliced.new_vertices) - Len(mesh.vertices) = 8
        /\ Len(sliced.mesh.faces) = 14
        /\ Len(sliced.mesh.vertices) = 12

C9_Witness == CentreCut /\ pc = "sliced" /\ ~sliced.fallback

\* the data of crossing x of a call: the distances of the current and the
\* next endpoint in walking order, the quotient d(current) / (d(current) -
\* d(next)), the distance of the endpoint on the retained side, and the
\* vertex emitted for the crossing
CrossingData(call, x) ==
    LET f == call.out.clips[x[1]].face
        cur == f[x[2]]
        nxt == f[(x[2] % 3) + 1]
        dc == call.out.distances[cur + 1]
        dn == call.out.distances[nxt + 1]
        denom == RSub(dc, dn)
    IN  [cur |-> call.in.vertices[cur + 1],
         nxt |-> call.in.vertices[nxt + 1],
         denom |-> denom,
         t |-> IF denom[1] = 0 THEN RInt(0) ELSE RDiv(dc, denom),
         current_retained |-> RGeq(dc, RNeg(tol)),
         retained_dist |-> IF RGeq(dc, RNeg(tol)) THEN dc ELSE dn,
         point |-> call.out.new_vertices[SplitIndex(call, x) + 1]]

\* C16: for every edge _clip_face treats as crossing the plane, the
\* denominator d(current) - d(next) is not 0 and t = d(current) /
\* (d(current) - d(next)) satisfies 0 <= t <= 1, so the new vertex lies on
\* the segment between the two endpoints.
C16_ParameterWithinUnitInterval ==
    \A call \in Calls : \A x \in Crossings(call) :
        LET e == CrossingData(call, x)
        IN  /\ e.denom[1] # 0
            /\ RGeq(e.t, RInt(0)) /\ RGeq(RInt(1), e.t)

\* C16 (amended): for every crossing edge the denominator is not 0 and the
\* new vertex is current + t * (next - current), a point of the plane
\* itself (d = 0); 0 <= t <= 1 holds exactly when the endpoint on the
\* retained side has d >= 0.  When that endpoint lies in the tolerance band
\* -tol <= d < 0, t is negative (it is the current endpoint) or greater
\* than 1 (it is the next one): the new vertex is extrapolated beyond it.
C16_OnPlaneWithinSegmentIffRetainedInFront ==
    \A call \in Calls : \A x \in Crossings(call) :
        LET e == CrossingData(call, x)
            inFront == RGeq(e.retained_dist, RInt(0))
        IN  /\ e.denom[1] # 0
            /\ e.point = VAdd(e.cur, VScale(VSub(e.nxt, e.cur), e.t))
            /\ VDot(VSub(e.point, plane_origin), plane_normal) = RInt(0)
            /\ inFront <=> (RGeq(e.t, RInt(0)) /\ RGeq(RInt(1), e.t))
            /\ (~inFront /\ e.current_retained) => RLt(e.t, RInt(0))
            /\ (~inFront /\ ~e.current_retained) => RLt(RInt(1), e.t)

\* one call has a crossing whose retained endpoint is in front of the plane,
\* one extrapolated before its current endpoint and one beyond its next
C16_Witness ==
    \E call \in Calls : \E x, y, z \in Crossings(call) :
        /\ RGeq(CrossingData(call, x).retained_dist, RInt(0))
        /\ RLt(CrossingData(call, y).t, RInt(0))
        /\ RLt(RInt(1), CrossingData(call, z).t)

\* the faces of a call's input with all three d >= -tol, by position
KeptAt(call) ==
    {k \in 1..Len(call.in.faces) : FaceAllKept(call, call.in.faces[k])}

\* C17: when _keep_halfspace does not take the fallback, no built face
\* references an original vertex with d < -tol: every index is within the
\* new vertex list and is an original vertex with d >= -tol or a cached
\* interpolated vertex; every mixed triangle yields a polygon of 3 or 4
\* vertices, fanned from its first vertex into 1 or 2 triangles.
C17_BuiltFacesOnRetainedSide ==
    \A call \in Calls :
        ~call.out.fallback =>
            LET n == Len(call.in.vertices)
                cached == {call.out.cache[k] : k \in DOMAIN call.out.cache}
                fanned == {<<r, i>> \in (1..Len(call.out.clips)) \X (1..2) :
                              i <= Len(call.out.clips[r].clipped) - 2}
            IN  /\ \A j \in 1..Len(call.out.new_faces) : \A c \in 1..3 :
                      LET v == call.out.new_faces[j][c]
                      IN  /\ v \in 0..(Len(call.out.new_vertices) - 1)
                          /\ v < n => RGeq(call.out.distances[v + 1], RNeg(tol))
                          /\ v >= n => v \in cached
                /\ \A r \in 1..Len(call.out.clips) :
                      LET clipped == call.out.clips[r].clipped
                      IN  /\ Len(clipped) \in {3, 4}
                          /\ \A i \in 1..(Len(clipped) - 2) :
                                \E j \in 1..Len(call.out.new_faces) :
                                   call.out.new_faces[j]
                                      = <<clipped[1], clipped[i + 1], clipped[i + 2]>>
                /\ Len(call.out.new_faces)
                      = Cardinality(KeptAt(call)) + Cardinality(fanned)

\* a call without fallback that clipped a triangle to 3 and one to 4 vertices
C17_Witness ==
    \E call \in Calls :
        /\ ~call.out.fallback
        /\ \E r \in 1..Len(call.out.clips) : Len(call.out.clips[r].clipped) = 3
        /\ \E r \in 1..Len(call.out.clips) : Len(call.out.clips[r].clipped) = 4
        /\ KeptAt(call) # {}

(***************************************************************************)
(* Properties of the repairer                                              *)
(***************************************************************************)
\* every edge of m is shared by exactly two faces
EveryEdgeTwice(m) ==
    \A k \in 1..Len(m.faces) : \A c \in 1..3 :
        LET a == m.faces[k][c]
            b == m.faces[k][(c % 3) + 1]
        IN  Cardinality({<<h, e>> \in (1..Len(m.faces)) \X (1..3) :
                {m.faces[h][e], m.faces[h][(e % 3) + 1]} = {a, b}}) = 2

\* C10: for any input mesh, remesh_watertight raises no error and returns a
\* watertight mesh.
C10_AlwaysWatertight ==
    mode = "repair" =>
        /\ pc # "raised"
        /\ pc = "returned" => Len(repaired.faces) > 0 /\ EveryEdgeTwice(repaired)

\* what does hold: a mesh that is returned is watertight
C10_ReturnedIsWatertight ==
    (mode = "repair" /\ pc = "returned") =>
        Len(repaired.faces) > 0 /\ EveryEdgeTwice(repaired)

=============================================================================
